---- MODULE Spec2Model ----
(***************************************************************************)
(* FLACExtractor.cpp: the FLAC container (FLACExtractor), its track        *)
(* (FLACSource) and the adapter around the libFLAC stream decoder          *)
(* (FLACParser).  libFLAC, the data source and the buffer group are         *)
(* external: what they return is chosen nondeterministically.              *)
(***************************************************************************)
EXTENDS Integers, Sequences, FiniteSets, TLC

VARIABLES
    source,          \* the first bytes of the data source
    file,            \* the metadata blocks of the data source, in stream order
    P,               \* the two FLACParser objects: "ext" (FLACExtractor::mParser), "trk" (FLACSource::mParser)
    mInitCheck,      \* FLACExtractor::mInitCheck
    mTrackMetadata,  \* FLACExtractor::mTrackMetadata (shared with the track)
    mFileMetadata,   \* FLACExtractor::mFileMetadata
    track,           \* the FLACSource object handed out by getTrack, or NoTrack
    ret,             \* the result of the last call of the host framework (none while one runs)
    aborted          \* a CHECK() failed: the process is gone

vars == <<source, file, P, mInitCheck, mTrackMetadata, mFileMetadata, track, ret, aborted>>

-----------------------------------------------------------------------------
(* Bounds of the model *)

\* largest index passed to getTrack / getTrackMetaData
MaxIndex == 1
\* max_blocksize declared by the streams of the model
MaxBlk == 1
\* frames the decoder pushes inside one of its calls, at most
MaxPushes == 2
\* largest byte position of the data source, and largest number of bytes the
\* decoder asks for in one read
MaxPos == 2
\* errors the decoder reports inside one of its calls, at most
MaxErrors == 2

-----------------------------------------------------------------------------
(* Program constants *)

OK == 0
NO_INIT == -19
kMaxChannels == 8
AID_MEDIA == 1013
\* the callers of the model: mediaserver and an application
Uids == {AID_MEDIA, 10001}

NULL == "NULL"

kAudioEncodingPcm16bit == 2
kAudioEncodingPcmFloat == 4

\* C++ conversions between status_t and bool
StatusToBool(s) == s # 0
BoolToStatus(b) == IF b THEN 1 ELSE 0

-----------------------------------------------------------------------------
(* Fixed-width integers.  A 32-bit or 64-bit value is the sequence of its   *)
(* bytes, least significant first (4 or 8 of them), so that products wrap  *)
(* as they do in C++; a value of exact arithmetic has ExactLen bytes.      *)

ExactLen == 12

\* the n-byte value of 0 <= x < 2^31
FromNat(x, n) == [i \in 1 .. n |-> IF i <= 4 THEN (x \div (256 ^ (i - 1))) % 256 ELSE 0]

\* the n-byte two's complement value of -2^31 < x < 2^31
FromInt(x, n) ==
    IF x >= 0 THEN FromNat(x, n)
    ELSE [i \in 1 .. n |-> 255 - FromNat(-x - 1, n)[i]]

U64(x) == FromNat(x, 8)
U32(x) == FromInt(x, 4)

\* n more zero bytes on top
Extend(a, n) == [i \in 1 .. n |-> IF i <= Len(a) THEN a[i] ELSE 0]

\* a * m for 0 <= m < 2^23, cut to the width of a
RECURSIVE BigMulAt(_, _, _, _)
BigMulAt(a, m, i, carry) ==
    IF i > Len(a) THEN <<>>
    ELSE LET t == a[i] * m + carry
         IN  <<t % 256>> \o BigMulAt(a, m, i + 1, t \div 256)
BigMul(a, m) == BigMulAt(a, m, 1, 0)

\* a \div d for 0 < d < 2^23
RECURSIVE BigDivAt(_, _, _, _)
BigDivAt(a, d, i, rem) ==
    IF i = 0 THEN <<>>
    ELSE LET cur == rem * 256 + a[i]
         IN  BigDivAt(a, d, i - 1, cur % d) \o <<cur \div d>>
BigDiv(a, d) == BigDivAt(a, d, Len(a), 0)

\* a + k for 0 <= k < 2^23, cut to the width of a
RECURSIVE BigAddAt(_, _, _)
BigAddAt(a, i, carry) ==
    IF i > Len(a) THEN <<>>
    ELSE <<(a[i] + carry) % 256>> \o BigAddAt(a, i + 1, (a[i] + carry) \div 256)
BigAdd(a, k) == BigAddAt(a, 1, k)

\* a < b, for values of the same width
RECURSIVE BigLessAt(_, _, _)
BigLessAt(a, b, i) ==
    IF i = 0 THEN FALSE
    ELSE IF a[i] # b[i] THEN a[i] < b[i]
    ELSE BigLessAt(a, b, i - 1)
BigLess(a, b) == BigLessAt(a, b, Len(a))

\* the sign bit of a two's complement value
IsNegative(a) == a[Len(a)] >= 128

S64(x) == FromInt(x, 8)

\* INT64_MAX
MaxInt64 == <<255, 255, 255, 255, 255, 255, 255, 127>>

\* -a, cut to the width of a
Negate(a) == BigAdd([i \in 1 .. Len(a) |-> 255 - a[i]], 1)

\* a / d on a signed value (the quotient is truncated towards zero), 0 < d < 2^23
SignedDiv(a, d) ==
    IF IsNegative(a) THEN Negate(BigDiv(Negate(a), d)) ELSE BigDiv(a, d)

\* the ExactLen-byte value a is one an int64_t holds (a >= 0)
FitsInt64(a) == a[8] < 128 /\ \A i \in 9 .. Len(a) : a[i] = 0

\* uint8_t header[4+4]
kHeaderSize == 8

\* "fLaC\0\0\0\042": the signature word and the size of STREAMINFO
kMagic == <<102, 76, 97, 67, 0, 0, 0, 34>>

\* STREAMINFO carries total_samples in a 36-bit field: 2^36 - 1
MaxTotalSamples == <<255, 255, 255, 255, 15, 0, 0, 0>>

-----------------------------------------------------------------------------
(* The streams of the model *)

StreamInfo(r, c, b, t, m) ==
    [sample_rate |-> r, channels |-> c, bits_per_sample |-> b,
     total_samples |-> t, max_blocksize |-> m]

\* memset(&mStreamInfo, 0, ...)
ZeroStreamInfo == StreamInfo(0, 0, 0, U64(0), 0)

SupportedRates == {8000, 11025, 12000, 16000, 22050, 24000, 32000, 44100, 48000, 88200, 96000}


\* what init() accepts (lines 506-539)
GoodChannels == {1, 2, 8}
GoodBits == {8, 16, 24}

\* the streams the whole life of a track is explored for
MonoStream == StreamInfo(44100, 1, 16, U64(1000), MaxBlk)
StereoStream == StreamInfo(48000, 2, 24, MaxTotalSamples, MaxBlk)
EightStream == StreamInfo(8000, 8, 8, U64(0), MaxBlk)
GoodStreams == {MonoStream, StereoStream, EightStream}
BadStreams ==
    {StreamInfo(44100, 9, 16, U64(1000), MaxBlk), StreamInfo(44100, 0, 16, U64(1000), MaxBlk),
     StreamInfo(44100, 1, 12, U64(1000), MaxBlk), StreamInfo(3000, 1, 16, U64(1000), MaxBlk)}

\* the streams init() alone is explored for
WideStreams ==
    {StreamInfo(r, c, b, t, MaxBlk) :
        r \in SupportedRates \cup {0, 3000, 44101, 192000},
        c \in GoodChannels \cup {0, 9},
        b \in GoodBits \cup {12, 20, 32},
        t \in {U64(0), U64(1000), MaxTotalSamples}}

\* metadata blocks as the decoder hands them to metadata_callback
SI(s) == [type |-> "STREAMINFO", stream_info |-> s]
VC == [type |-> "VORBIS_COMMENT", comments |-> <<NULL, "TITLE=t">>]
PIC == [type |-> "PICTURE", data |-> "img"]
SeekTable == [type |-> "SEEKTABLE"]

Files ==
    {<<>>, <<VC, PIC>>, <<SeekTable>>}
    \cup {<<SI(s)>> : s \in {StereoStream} \cup BadStreams}
    \cup {<<SI(MonoStream), SI(StereoStream)>>}
    \cup {<<SI(StreamInfo(3000, 1, 16, U64(1000), MaxBlk)), SI(MonoStream)>>}
    \cup {<<PIC, SI(EightStream)>>}

WideFiles ==
    {<<>>, <<VC, PIC>>} \cup {<<SI(s)>> : s \in WideStreams}
    \cup {<<VC, SI(s), PIC>> : s \in GoodStreams \cup BadStreams}

-----------------------------------------------------------------------------
(* FLACParser *)

Parsers == {"ext", "trk"}

\* FLAC__FrameHeader: libFLAC hands frames over numbered by sample
FrameHeader(n, r, c, b, s) ==
    [blocksize |-> n, sample_rate |-> r, channels |-> c, bits_per_sample |-> b,
     number_type |-> "SAMPLE_NUMBER", sample_number |-> s]

\* memset(&mWriteHeader, 0, ...): FLAC__FRAME_NUMBER_TYPE_FRAME_NUMBER is the
\* zero of its enum
ZeroHeader == [FrameHeader(0, 0, 0, 0, U64(0)) EXCEPT !.number_type = "FRAME_NUMBER"]

NoCallback == [name |-> "none"]

\* The member initializers of FLACParser::FLACParser; pc is the position of the
\* parser's caller: "init" (about to run init()), "metadata" (inside
\* process_until_end_of_metadata), "ready" (no call in progress), "driving"
\* (readBuffer is inside the decoder). next is the decoder's own position in
\* the metadata blocks of the file. initStatus is what init() returned and
\* metaPhase what process_until_end_of_metadata returned ("ok", "failed");
\* groups counts the MediaBufferGroup objects created and not deleted, acquired
\* the buffers of the group that are with the consumer.  call is the decoder
\* function the parser is inside and calls the number of decoder functions the
\* readBuffer in progress has called; pushes is the number of frames the decoder
\* has pushed since init() or readBuffer was entered, firstPush the header of the first of them and writeStatus
\* what writeCallback returned for the last; mWriteBuffer names the push whose
\* channel pointers it holds.  seekTimeUs, doSeek and sample are the locals of
\* the read in progress.  cb is the last callback of the data source the decoder
\* made inside the call in progress, with what it returned; zeroRead tells that
\* a read of the data source has returned 0 bytes and no seek came after it;
\* errors is the number of errors the decoder has reported since init() or the
\* latest readBuffer was entered.
NewParser(outputFloat, withMetadata) ==
    [pc |-> "init",
     mOutputFloat |-> outputFloat,
     withMetadata |-> withMetadata,
     mInitCheck |-> FALSE,
     initStatus |-> NO_INIT,
     metaPhase |-> "none",
     mMaxBufferSize |-> 0,
     mGroup |-> NULL,
     groups |-> 0,
     acquired |-> 0,
     mCurrentPos |-> 0,
     mEOF |-> FALSE,
     mStreamInfo |-> ZeroStreamInfo,
     mStreamInfoValid |-> FALSE,
     mWriteRequested |-> FALSE,
     mWriteCompleted |-> FALSE,
     mWriteHeader |-> ZeroHeader,
     mWriteBuffer |-> 0,
     mErrorStatus |-> -1,
     next |-> 1,
     cb |-> NoCallback,
     zeroRead |-> FALSE,
     errors |-> 0,
     call |-> "none",
     calls |-> 0,
     pushes |-> 0,
     firstPush |-> ZeroHeader,
     writeStatus |-> "none",
     seekTimeUs |-> S64(0),
     doSeek |-> FALSE,
     sample |-> U64(0)]

\* no FLACParser object
NoParser == [NewParser(FALSE, FALSE) EXCEPT !.pc = "none"]

getMaxBlockSize(p) == P[p].mStreamInfo.max_blocksize
getSampleRate(p) == P[p].mStreamInfo.sample_rate
getChannels(p) == P[p].mStreamInfo.channels
getBitsPerSample(p) == P[p].mStreamInfo.bits_per_sample
getTotalSamples(p) == P[p].mStreamInfo.total_samples
getOutputSampleSize(rec) == IF rec.mOutputFloat THEN 4 ELSE 2

\* AMediaFormat objects: a function from the keys that are set to their values
EmptyFormat == [k \in {} |-> 0]
SetKey(fmt, k, v) == (k :> v) @@ fmt
HasKey(fmt, k) == k \in DOMAIN fmt

\* the FLACSource object; uid and index are the arguments of the getTrack call
\* that created it; failed tells that a read of the track has returned no buffer
NoTrack == [state |-> "none", mOutputFloat |-> FALSE, mInitCheck |-> FALSE, mStarted |-> FALSE,
            uid |-> 0, index |-> 0, failed |-> FALSE]

NoRet == [op |-> "none"]

\* no call of the host framework is in progress
Idle == ~aborted /\ P["ext"].pc = "ready" /\ P["trk"].pc \in {"none", "ready"}

-----------------------------------------------------------------------------
(* FLACParser::metadataCallback *)

\* mutant: every STREAMINFO block overwrites the stored one
OnStreamInfoLastWins(rec, si) ==
    [rec EXCEPT !.mStreamInfo = si, !.mStreamInfoValid = TRUE]

\* mutant: a second STREAMINFO block invalidates the stored one
OnStreamInfoStrict(rec, si) ==
    IF ~rec.mStreamInfoValid
    THEN [rec EXCEPT !.mStreamInfo = si, !.mStreamInfoValid = TRUE]
    ELSE [rec EXCEPT !.mStreamInfo = ZeroStreamInfo, !.mStreamInfoValid = FALSE]

\* case FLAC__METADATA_TYPE_STREAMINFO: the first block is kept, a later one is
\* logged and dropped
OnStreamInfo(rec, si) ==
    IF ~rec.mStreamInfoValid
    THEN [rec EXCEPT !.mStreamInfo = si, !.mStreamInfoValid = TRUE]
    ELSE rec

\* parseVorbisComment on every entry whose pointer is not NULL
RECURSIVE OnVorbisComment(_, _, _)
OnVorbisComment(fmt, comments, i) ==
    IF i > Len(comments) THEN fmt
    ELSE OnVorbisComment(
            IF comments[i] # NULL
            THEN SetKey(fmt, "tags",
                        (IF HasKey(fmt, "tags") THEN fmt["tags"] ELSE {}) \cup {comments[i]})
            ELSE fmt,
            comments, i + 1)

\* mutant: the file is typed as soon as its album art is seen
OnPictureSetsMime(fmt, data) ==
    SetKey(SetKey(fmt, "albumart", data), "mime", "audio/flac")

\* case FLAC__METADATA_TYPE_PICTURE
OnPicture(fmt, data) == SetKey(fmt, "albumart", data)

\* The decoder hands the next metadata block of the stream to the parser; it
\* does so inside process_until_end_of_metadata and, when blocks are left,
\* inside a later process_single / seek_absolute.
MetadataCallback(p) ==
    /\ ~aborted
    /\ P[p].pc \in {"metadata", "driving"}
    /\ P[p].next <= Len(file)
    /\ LET block == file[P[p].next]
           rec == [P[p] EXCEPT !.next = @ + 1]
       IN  /\ P' = [P EXCEPT ![p] =
                      IF block.type = "STREAMINFO"
                      THEN OnStreamInfo(rec, block.stream_info)
                      ELSE rec]
           /\ mFileMetadata' =
                IF block.type = "VORBIS_COMMENT" /\ P[p].withMetadata
                THEN OnVorbisComment(mFileMetadata, block.comments, 1)
                ELSE IF block.type = "PICTURE" /\ P[p].withMetadata
                THEN OnPicture(mFileMetadata, block.data)
                ELSE mFileMetadata
    /\ UNCHANGED <<source, file, mInitCheck, mTrackMetadata, track, ret, aborted>>

-----------------------------------------------------------------------------
(* The callbacks of the data source: readCallback, seekCallback,            *)
(* tellCallback, lengthCallback, eofCallback                                 *)

\* mutant: the position moves by the number of bytes asked for
OnReadAdvancesRequested(rec, requested, actual) ==
    IF 0 > actual
    THEN [rec EXCEPT !.cb = [name |-> "read", requested |-> requested, actual |-> actual,
                             status |-> "ABORT", bytes |-> 0]]
    ELSE IF 0 = actual
    THEN [rec EXCEPT !.mEOF = TRUE,
                     !.cb = [name |-> "read", requested |-> requested, actual |-> actual,
                             status |-> "END_OF_STREAM", bytes |-> 0]]
    ELSE [rec EXCEPT !.mCurrentPos = @ + requested,
                     !.cb = [name |-> "read", requested |-> requested, actual |-> actual,
                             status |-> "CONTINUE", bytes |-> actual]]

\* readCallback: actual is what mDataSource->readAt(mCurrentPos, buffer,
\* requested) returned; bytes is *bytes at the return
OnRead(rec, requested, actual) ==
    IF 0 > actual
    THEN [rec EXCEPT !.cb = [name |-> "read", requested |-> requested, actual |-> actual,
                             status |-> "ABORT", bytes |-> 0]]
    ELSE IF 0 = actual
    THEN [rec EXCEPT !.mEOF = TRUE,
                     !.cb = [name |-> "read", requested |-> requested, actual |-> actual,
                             status |-> "END_OF_STREAM", bytes |-> 0]]
    ELSE [rec EXCEPT !.mCurrentPos = @ + actual,
                     !.cb = [name |-> "read", requested |-> requested, actual |-> actual,
                             status |-> "CONTINUE", bytes |-> actual]]

\* mutant: the flag is not cleared
OnSeekKeepsEof(rec, absolute_byte_offset) ==
    [rec EXCEPT !.mCurrentPos = absolute_byte_offset,
                !.cb = [name |-> "seek", offset |-> absolute_byte_offset, status |-> "OK"]]

\* seekCallback
OnSeek(rec, absolute_byte_offset) ==
    [rec EXCEPT !.mCurrentPos = absolute_byte_offset,
                !.mEOF = FALSE,
                !.cb = [name |-> "seek", offset |-> absolute_byte_offset, status |-> "OK"]]

\* tellCallback
OnTell(rec) ==
    [rec EXCEPT !.cb = [name |-> "tell", offset |-> rec.mCurrentPos, status |-> "OK"]]

\* lengthCallback: mDataSource->getSize answers sizeOk and size
OnLength(rec, sizeOk, size) ==
    [rec EXCEPT !.cb = IF sizeOk
                       THEN [name |-> "length", status |-> "OK", length |-> size]
                       ELSE [name |-> "length", status |-> "UNSUPPORTED"]]

\* eofCallback
OnEof(rec) == [rec EXCEPT !.cb = [name |-> "eof", result |-> rec.mEOF]]

\* the decoder is inside one of its functions and may call back
InDecoder(p) == ~aborted /\ P[p].pc \in {"metadata", "driving"}

\* the decoder reads: the data source hands over at most the bytes asked for,
\* or fails (-1)
ReadCallback(p, requested, actual) ==
    /\ InDecoder(p)
    /\ actual <= requested
    /\ P[p].mCurrentPos + actual <= MaxPos
    /\ P' = [P EXCEPT ![p] = [OnRead(P[p], requested, actual) EXCEPT
                                 !.zeroRead = IF actual = 0 THEN TRUE ELSE @]]
    /\ UNCHANGED <<source, file, mInitCheck, mTrackMetadata, mFileMetadata, track, ret, aborted>>

SeekCallback(p, offset) ==
    /\ InDecoder(p)
    /\ P' = [P EXCEPT ![p] = [OnSeek(P[p], offset) EXCEPT !.zeroRead = FALSE]]
    /\ UNCHANGED <<source, file, mInitCheck, mTrackMetadata, mFileMetadata, track, ret, aborted>>

TellCallback(p) ==
    /\ InDecoder(p)
    /\ P' = [P EXCEPT ![p] = OnTell(P[p])]
    /\ UNCHANGED <<source, file, mInitCheck, mTrackMetadata, mFileMetadata, track, ret, aborted>>

LengthCallback(p, sizeOk) ==
    /\ InDecoder(p)
    /\ P' = [P EXCEPT ![p] = OnLength(P[p], sizeOk, MaxPos)]
    /\ UNCHANGED <<source, file, mInitCheck, mTrackMetadata, mFileMetadata, track, ret, aborted>>

EofCallback(p) ==
    /\ InDecoder(p)
    /\ P' = [P EXCEPT ![p] = OnEof(P[p])]
    /\ UNCHANGED <<source, file, mInitCheck, mTrackMetadata, mFileMetadata, track, ret, aborted>>

-----------------------------------------------------------------------------
(* FLACParser::errorCallback *)

\* the values of FLAC__StreamDecoderErrorStatus: lost sync, bad header, frame
\* CRC mismatch, unparseable stream
ErrorStatuses == 0 .. 3

\* mutant: an error withdraws the write request
OnErrorDisarms(rec, status) ==
    [rec EXCEPT !.mErrorStatus = status, !.mWriteRequested = FALSE]

\* mErrorStatus = status
OnError(rec, status) == [rec EXCEPT !.mErrorStatus = status]

\* the decoder reports an error
ErrorCallback(p, status) ==
    /\ InDecoder(p)
    /\ P[p].errors < MaxErrors
    /\ P' = [P EXCEPT ![p] = [OnError(P[p], status) EXCEPT !.errors = @ + 1]]
    /\ UNCHANGED <<source, file, mInitCheck, mTrackMetadata, mFileMetadata, track, ret, aborted>>

-----------------------------------------------------------------------------
(* FLACParser::writeCallback *)

\* mutant: the frame is captured whether a write is requested or not
OnWriteAlways(rec, header, buffer) ==
    [rec EXCEPT !.mWriteRequested = FALSE, !.mWriteHeader = header,
                !.mWriteBuffer = buffer, !.mWriteCompleted = TRUE,
                !.writeStatus = "CONTINUE"]

\* the frame (its header and its channel pointers) is captured only while a
\* write is requested; writeStatus is the status returned to the decoder
OnWrite(rec, header, buffer) ==
    IF rec.mWriteRequested
    THEN [rec EXCEPT !.mWriteRequested = FALSE, !.mWriteHeader = header,
                     !.mWriteBuffer = buffer, !.mWriteCompleted = TRUE,
                     !.writeStatus = "CONTINUE"]
    ELSE [rec EXCEPT !.writeStatus = "ABORT"]

\* the frame headers the decoder may push: with the parameters of STREAMINFO
\* and block sizes around max_blocksize, or with an allowed block size and one
\* parameter (22050 Hz, 3 channels, 20 bits) that differs from STREAMINFO, or
\* numbered by frame
SampleNumbers == {U64(0), U64(1000)}

FrameHeaders(p) ==
    {FrameHeader(n, getSampleRate(p), getChannels(p), getBitsPerSample(p), U64(0)) :
        n \in 0 .. (MaxBlk + 1)}
    \cup {FrameHeader(1, getSampleRate(p), getChannels(p), getBitsPerSample(p), s) :
            s \in SampleNumbers}
    \cup {FrameHeader(1, 22050, getChannels(p), getBitsPerSample(p), U64(0)),
          FrameHeader(1, getSampleRate(p), 3, getBitsPerSample(p), U64(0)),
          FrameHeader(1, getSampleRate(p), getChannels(p), 20, U64(0)),
          [FrameHeader(1, getSampleRate(p), getChannels(p), getBitsPerSample(p), U64(0))
              EXCEPT !.number_type = "FRAME_NUMBER"]}

\* the decoder pushes a frame; its channel pointers are named by the number of
\* the push inside the decoder call
WriteCallback(p, header) ==
    /\ ~aborted
    /\ P[p].pc \in {"metadata", "driving"}
    /\ P[p].pushes < MaxPushes
    /\ LET rec == [P[p] EXCEPT !.pushes = @ + 1,
                               !.firstPush = IF P[p].pushes = 0 THEN header ELSE @]
       IN  P' = [P EXCEPT ![p] = OnWrite(rec, header, rec.pushes)]
    /\ UNCHANGED <<source, file, mInitCheck, mTrackMetadata, mFileMetadata, track, ret, aborted>>

-----------------------------------------------------------------------------
(* FLACParser::init and the constructors around it *)

\* mutant: the bit depth is not checked
InitChecksAnyBits(valid, si) ==
    IF ~valid THEN NO_INIT
    ELSE IF si.channels = 0 \/ si.channels > kMaxChannels THEN NO_INIT
    ELSE IF si.sample_rate \notin SupportedRates THEN NO_INIT
    ELSE OK

\* the checks init() makes once process_until_end_of_metadata has returned true
InitChecks(valid, si) ==
    IF ~valid THEN NO_INIT
    ELSE IF si.channels = 0 \/ si.channels > kMaxChannels THEN NO_INIT
    ELSE IF si.bits_per_sample \notin {8, 16, 24} THEN NO_INIT
    ELSE IF si.sample_rate \notin SupportedRates THEN NO_INIT
    ELSE OK

\* mutant: the product is computed in 32 bits
Duration32(total, rate) == Extend(BigDiv(BigMul(SubSeq(total, 1, 4), 1000000), rate), 8)

\* mutant: the quotient is rounded to the nearest microsecond
DurationRounded(total, rate) == BigDiv(BigAdd(BigMul(total, 1000000), rate \div 2), rate)

\* (getTotalSamples() * 1000000LL) / getSampleRate(): a 64-bit unsigned
\* product and quotient, stored as int64
Duration(total, rate) == BigDiv(BigMul(total, 1000000), rate)

\* populate track metadata (the 32-bit values of the model are below 2^31: the
\* conversion from unsigned to int32 keeps them)
TrackMetadataOf(fmt, si) ==
    SetKey(SetKey(SetKey(SetKey(SetKey(fmt,
        "mime", "audio/raw"),
        "channel-count", si.channels),
        "sample-rate", si.sample_rate),
        "bits-per-sample", si.bits_per_sample),
        "durationUs", Duration(si.total_samples, si.sample_rate))

\* mutant: the bool member holds "init succeeded"
ParserInitCheckSucceeded(status) == status = OK

\* mInitCheck = init() in FLACParser (a bool), read back through initCheck()
\* (a status_t)
ParserInitCheck(status) == StatusToBool(status)
initCheck(rec) == BoolToStatus(rec.mInitCheck)

\* init() has returned status: the FLACParser constructor stores it and the
\* constructor that created the parser (FLACExtractor or FLACSource) finishes
ConstructEnd(p, rec, status) ==
    LET done == [rec EXCEPT !.pc = "ready", !.initStatus = status,
                            !.mInitCheck = ParserInitCheck(status),
                            !.call = "none", !.calls = 0, !.pushes = 0,
                            !.firstPush = ZeroHeader, !.cb = NoCallback,
                            !.writeStatus = "none"]
    IN  /\ P' = [P EXCEPT ![p] = done]
        /\ IF p = "ext"
           THEN /\ mInitCheck' = initCheck(done)
                /\ UNCHANGED <<track, ret>>
           ELSE /\ track' = [track EXCEPT !.state = "live",
                                          !.mInitCheck = (initCheck(done) # 0)]
                /\ ret' = [op |-> "getTrack", track |-> TRUE, index |-> track.index]
                /\ UNCHANGED mInitCheck

\* init() up to the call of process_until_end_of_metadata: the decoder is
\* created and init_stream is called; either may fail
InitBegin(p, setupOk) ==
    /\ ~aborted
    /\ P[p].pc = "init"
    /\ IF setupOk
       THEN /\ P' = [P EXCEPT ![p].pc = "metadata",
                               ![p].call = "process_until_end_of_metadata"]
            /\ UNCHANGED <<mInitCheck, track, ret>>
       ELSE ConstructEnd(p, P[p], NO_INIT)
    /\ UNCHANGED <<source, file, mTrackMetadata, mFileMetadata, aborted>>

\* process_until_end_of_metadata returns metaOk; the rest of init()
InitEnd(p, metaOk) ==
    /\ ~aborted
    /\ P[p].pc = "metadata"
    /\ LET status == IF ~metaOk THEN NO_INIT
                     ELSE InitChecks(P[p].mStreamInfoValid, P[p].mStreamInfo)
       IN  /\ ConstructEnd(p, [P[p] EXCEPT !.metaPhase = IF metaOk THEN "ok" ELSE "failed"],
                           status)
           /\ mTrackMetadata' =
                IF status = OK /\ P[p].withMetadata
                THEN TrackMetadataOf(mTrackMetadata, P[p].mStreamInfo)
                ELSE mTrackMetadata
           /\ mFileMetadata' =
                IF status = OK /\ P[p].withMetadata
                THEN SetKey(mFileMetadata, "mime", "audio/flac")
                ELSE mFileMetadata
    /\ UNCHANGED <<source, file, aborted>>

-----------------------------------------------------------------------------
(* FLACExtractor *)

\* mutant: the caller is not looked at
shouldExtractorOutputFloatAnyCaller(bitsPerSample, callingUid) == bitsPerSample > 16

shouldExtractorOutputFloat(bitsPerSample, callingUid) ==
    bitsPerSample > 16 /\ callingUid = AID_MEDIA

PcmEncoding(outputFloat) ==
    IF outputFloat THEN kAudioEncodingPcmFloat ELSE kAudioEncodingPcm16bit

countTracks == IF mInitCheck = OK THEN 1 ELSE 0

CountTracks ==
    /\ Idle
    /\ ret' = [op |-> "countTracks", count |-> countTracks]
    /\ UNCHANGED <<source, file, P, mInitCheck, mTrackMetadata, mFileMetadata, track, aborted>>

\* getTrack and getTrackMetaData refuse a failed container and every index
\* but 0
NoSuchTrack(index) == mInitCheck # OK \/ index > 0

\* getTrack: NULL, or a new FLACSource, whose constructor creates a FLACParser
\* of its own over the same data source (and runs init() again)
GetTrack(index, uid) ==
    /\ Idle
    /\ track.state = "none"
    /\ IF NoSuchTrack(index)
       THEN /\ ret' = [op |-> "getTrack", track |-> FALSE, index |-> index]
            /\ UNCHANGED <<P, track>>
       ELSE LET outputFloat == shouldExtractorOutputFloat(getBitsPerSample("ext"), uid)
            IN  /\ track' = [state |-> "constructing", mOutputFloat |-> outputFloat,
                             mInitCheck |-> FALSE, mStarted |-> FALSE, uid |-> uid,
                             index |-> index, failed |-> FALSE]
                /\ P' = [P EXCEPT !["trk"] = NewParser(outputFloat, FALSE)]
                /\ ret' = NoRet
    /\ UNCHANGED <<source, file, mInitCheck, mTrackMetadata, mFileMetadata, aborted>>

\* AMediaFormat_copy(meta, mTrackMetadata) answers copyOk
GetTrackMetaData(index, uid, copyOk) ==
    /\ Idle
    /\ ret' =
         IF NoSuchTrack(index) \/ ~copyOk
         THEN [op |-> "getTrackMetaData", ok |-> FALSE, index |-> index]
         ELSE [op |-> "getTrackMetaData", ok |-> TRUE, index |-> index, uid |-> uid,
               meta |-> SetKey(mTrackMetadata, "pcm-encoding",
                           PcmEncoding(shouldExtractorOutputFloat(getBitsPerSample("ext"), uid)))]
    /\ UNCHANGED <<source, file, P, mInitCheck, mTrackMetadata, mFileMetadata, track, aborted>>

GetMetaData(copyOk) ==
    /\ Idle
    /\ ret' = IF copyOk THEN [op |-> "getMetaData", ok |-> TRUE, meta |-> mFileMetadata]
              ELSE [op |-> "getMetaData", ok |-> FALSE]
    /\ UNCHANGED <<source, file, P, mInitCheck, mTrackMetadata, mFileMetadata, track, aborted>>

-----------------------------------------------------------------------------
(* FLACSource: start, stop, getFormat *)

TrackIdle == Idle /\ track.state = "live"

\* mMaxBufferSize = getMaxBlockSize() * getChannels() * getOutputSampleSize():
\* unsigned * unsigned, then * size_t (the block sizes and channel counts of the
\* model keep the products far below 2^31)
BufferSize(blocksize, channels, sampleSize) == (blocksize * channels) * sampleSize

\* FLACParser::allocateBuffers, after its CHECK(mGroup == NULL)
allocateBuffers(rec) ==
    [rec EXCEPT !.mGroup = "group", !.groups = @ + 1, !.acquired = 0,
                !.mMaxBufferSize =
                    BufferSize(rec.mStreamInfo.max_blocksize, rec.mStreamInfo.channels,
                               getOutputSampleSize(rec))]

\* mutant: the group is deleted and the pointer kept
releaseBuffersKeepsPointer(rec) == [rec EXCEPT !.groups = @ - 1, !.acquired = 0]

\* FLACParser::releaseBuffers, after its CHECK(mGroup != NULL)
releaseBuffers(rec) == [rec EXCEPT !.mGroup = NULL, !.groups = @ - 1, !.acquired = 0]

\* CHECK(!mStarted)
StartAllowed == ~track.mStarted

\* CHECK(mStarted)
StopAllowed == track.mStarted

Start ==
    /\ TrackIdle
    /\ IF StartAllowed /\ P["trk"].mGroup = NULL
       THEN /\ P' = [P EXCEPT !["trk"] = allocateBuffers(P["trk"])]
            /\ track' = [track EXCEPT !.mStarted = TRUE]
            /\ ret' = [op |-> "start", ok |-> TRUE, wasStarted |-> track.mStarted]
            /\ UNCHANGED aborted
       ELSE /\ aborted' = TRUE
            /\ ret' = [op |-> "start", ok |-> FALSE, wasStarted |-> track.mStarted]
            /\ UNCHANGED <<P, track>>
    /\ UNCHANGED <<source, file, mInitCheck, mTrackMetadata, mFileMetadata>>

Stop ==
    /\ TrackIdle
    /\ IF StopAllowed /\ P["trk"].mGroup # NULL
       THEN /\ P' = [P EXCEPT !["trk"] = releaseBuffers(P["trk"])]
            /\ track' = [track EXCEPT !.mStarted = FALSE]
            /\ ret' = [op |-> "stop", ok |-> TRUE, wasStarted |-> track.mStarted]
            /\ UNCHANGED aborted
       ELSE /\ aborted' = TRUE
            /\ ret' = [op |-> "stop", ok |-> FALSE, wasStarted |-> track.mStarted]
            /\ UNCHANGED <<P, track>>
    /\ UNCHANGED <<source, file, mInitCheck, mTrackMetadata, mFileMetadata>>

\* FLACSource::getFormat
GetFormat(copyOk) ==
    /\ TrackIdle
    /\ ret' = IF copyOk
              THEN [op |-> "getFormat", ok |-> TRUE,
                    meta |-> SetKey(mTrackMetadata, "pcm-encoding", PcmEncoding(track.mOutputFloat))]
              ELSE [op |-> "getFormat", ok |-> FALSE]
    /\ UNCHANGED <<source, file, P, mInitCheck, mTrackMetadata, mFileMetadata, track, aborted>>

\* ~FLACSource: stop() when started, then delete mParser
ReleaseTrack ==
    /\ TrackIdle
    /\ IF track.mStarted /\ P["trk"].mGroup = NULL
       THEN /\ aborted' = TRUE
            /\ UNCHANGED <<P, track>>
       ELSE /\ P' = [P EXCEPT !["trk"] = NoParser]
            /\ track' = NoTrack
            /\ UNCHANGED aborted
    /\ ret' = [op |-> "release"]
    /\ UNCHANGED <<source, file, mInitCheck, mTrackMetadata, mFileMetadata>>

-----------------------------------------------------------------------------
(* FLACSource::read and FLACParser::readBuffer *)

\* the seek times of the model, in microseconds (int64_t)
SeekTimes == {S64(-1), S64(0), S64(22676), MaxInt64}

\* seekTimeUs <= 0LL
NotPositive(seekTimeUs) == IsNegative(seekTimeUs) \/ seekTimeUs = S64(0)

\* seekTimeUs * getSampleRate() is a product of two int64_t values (the
\* unsigned rate is converted): it overflows, which is undefined, when the
\* exact product is not an int64_t
SeekOverflows(seekTimeUs, rate) ==
    /\ ~NotPositive(seekTimeUs)
    /\ ~FitsInt64(BigMul(Extend(seekTimeUs, ExactLen), rate))

\* the sample index FLACSource::read hands to readBuffer for a seek request,
\* in a build where the product wraps: the signed quotient becomes a
\* FLAC__uint64, which is compared with the total
SeekSample(seekTimeUs, rate, total) ==
    IF NotPositive(seekTimeUs) THEN U64(0)
    ELSE LET sample == SignedDiv(BigMul(seekTimeUs, rate), 1000000)
         IN  IF ~BigLess(sample, total) THEN total ELSE sample

\* mutant: the write is not requested
ArmWriteUnrequested(rec) == [rec EXCEPT !.mWriteCompleted = FALSE]

\* mutant: the flag of the last capture is kept
ArmWriteKeepsCompleted(rec) == [rec EXCEPT !.mWriteRequested = TRUE]

\* mWriteRequested = true; mWriteCompleted = false;
ArmWrite(rec) == [rec EXCEPT !.mWriteRequested = TRUE, !.mWriteCompleted = FALSE]

\* mutant: a seek is followed by process_single
EngineCallsSeekThenSingle(doSeek) ==
    IF doSeek THEN <<"seek_absolute", "process_single">> ELSE <<"process_single">>

\* the decoder functions readBuffer calls before it looks at mWriteCompleted
EngineCalls(doSeek) ==
    IF doSeek THEN <<"seek_absolute">> ELSE <<"process_single">>

\* read() up to the first decoder call inside readBuffer.  An overflow of the
\* product of a seek is undefined: the build either wraps it or (trap) stops
\* the process.
ReadBegin(seek, seekTimeUs, trap) ==
    /\ TrackIdle
    /\ IF seek /\ trap /\ SeekOverflows(seekTimeUs, getSampleRate("trk"))
       THEN /\ aborted' = TRUE
            /\ P' = [P EXCEPT !["trk"].seekTimeUs = seekTimeUs]
       ELSE /\ P' = [P EXCEPT !["trk"] =
                      [ArmWrite(@) EXCEPT
                         !.pc = "driving",
                         !.call = EngineCalls(seek)[1],
                         !.calls = 1,
                         !.pushes = 0,
                         !.errors = 0,
                         !.firstPush = ZeroHeader,
                         !.writeStatus = "none",
                         !.seekTimeUs = IF seek THEN seekTimeUs ELSE S64(0),
                         !.doSeek = seek,
                         !.sample = IF seek
                                    THEN SeekSample(seekTimeUs, getSampleRate("trk"),
                                                    getTotalSamples("trk"))
                                    ELSE U64(0)]]
            /\ UNCHANGED aborted
    /\ ret' = NoRet
    /\ UNCHANGED <<source, file, mInitCheck, mTrackMetadata, mFileMetadata, track>>

\* mutant: the bit depth of the frame is not compared
FrameAcceptedAnyBits(rec) ==
    /\ ~(rec.mWriteHeader.blocksize = 0
         \/ rec.mWriteHeader.blocksize > rec.mStreamInfo.max_blocksize)
    /\ ~(rec.mWriteHeader.sample_rate # rec.mStreamInfo.sample_rate
         \/ rec.mWriteHeader.channels # rec.mStreamInfo.channels)

\* verify that block header keeps the promises made by STREAMINFO
FrameAccepted(rec) ==
    /\ ~(rec.mWriteHeader.blocksize = 0
         \/ rec.mWriteHeader.blocksize > rec.mStreamInfo.max_blocksize)
    /\ ~(rec.mWriteHeader.sample_rate # rec.mStreamInfo.sample_rate
         \/ rec.mWriteHeader.channels # rec.mStreamInfo.channels
         \/ rec.mWriteHeader.bits_per_sample # rec.mStreamInfo.bits_per_sample)

\* the formatter readBuffer calls and the shift it computes
\* (const unsigned leftShift = 16 - bitsPerSample, or 32 - bitsPerSample)
CopyCall(outputFloat, bitsPerSample) ==
    IF outputFloat
    THEN [fn |-> "copyToFloat", bitsPerSample |-> bitsPerSample,
          leftShift |-> U32(32 - bitsPerSample)]
    ELSE [fn |-> "copyTo16Signed", bitsPerSample |-> bitsPerSample,
          leftShift |-> U32(16 - bitsPerSample)]

\* int64_t timeUs = (1000000LL * sampleNumber) / getSampleRate()
TimeUs(sampleNumber, rate) == BigDiv(BigMul(sampleNumber, 1000000), rate)

\* the media buffer readBuffer returns for the captured frame
BufferOf(rec) ==
    [size |-> BufferSize(rec.mWriteHeader.blocksize, rec.mStreamInfo.channels,
                         getOutputSampleSize(rec)),
     capacity |-> rec.mMaxBufferSize,
     copy |-> CopyCall(rec.mOutputFloat, rec.mStreamInfo.bits_per_sample),
     header |-> rec.mWriteHeader,
     planes |-> rec.mWriteBuffer,
     timeUs |-> TimeUs(rec.mWriteHeader.sample_number, rec.mStreamInfo.sample_rate),
     sync |-> 1]

\* mutant: the answer of seek_absolute is not looked at
ReadOutcomeSeekUnchecked(rec, decoderOk, acquireOk) ==
    IF ~decoderOk /\ ~rec.doSeek THEN "null"
    ELSE IF ~rec.mWriteCompleted THEN "null"
    ELSE IF ~FrameAccepted(rec) THEN "null"
    ELSE IF rec.mGroup = NULL THEN "check"
    ELSE IF ~acquireOk THEN "null"
    ELSE IF BufferSize(rec.mWriteHeader.blocksize, rec.mStreamInfo.channels,
                       getOutputSampleSize(rec)) > rec.mMaxBufferSize THEN "check"
    ELSE IF rec.mWriteHeader.number_type # "SAMPLE_NUMBER" THEN "check"
    ELSE "buffer"

\* what readBuffer does once the decoder call has returned decoderOk:
\* "null" (return NULL), "check" (a CHECK fails) or "buffer"
ReadOutcome(rec, decoderOk, acquireOk) ==
    IF ~decoderOk THEN "null"
    ELSE IF ~rec.mWriteCompleted THEN "null"
    ELSE IF ~FrameAccepted(rec) THEN "null"
    ELSE IF rec.mGroup = NULL THEN "check"
    ELSE IF ~acquireOk THEN "null"
    ELSE IF BufferSize(rec.mWriteHeader.blocksize, rec.mStreamInfo.channels,
                       getOutputSampleSize(rec)) > rec.mMaxBufferSize THEN "check"
    ELSE IF rec.mWriteHeader.number_type # "SAMPLE_NUMBER" THEN "check"
    ELSE "buffer"

\* readBuffer gets as far as acquire_buffer
AcquireCalled(rec, decoderOk) ==
    decoderOk /\ rec.mWriteCompleted /\ FrameAccepted(rec) /\ rec.mGroup # NULL

\* mutant: no buffer is an unknown error
ReadStatusUnknown(hasBuffer) ==
    IF hasBuffer THEN "AMEDIA_OK" ELSE "AMEDIA_ERROR_UNKNOWN"

\* return buffer != NULL ? AMEDIA_OK : AMEDIA_ERROR_END_OF_STREAM
ReadStatus(hasBuffer) ==
    IF hasBuffer THEN "AMEDIA_OK" ELSE "AMEDIA_ERROR_END_OF_STREAM"

\* The decoder call returns decoderOk: readBuffer goes on to its next decoder
\* call if it has one, or else to its end, and read() returns.
\* acquire_buffer waits while the one buffer of the group is with the consumer.
ReadEnd(decoderOk, acquireOk) ==
    /\ ~aborted
    /\ P["trk"].pc = "driving"
    /\ LET rec == P["trk"]
           outcome == ReadOutcome(rec, decoderOk, acquireOk)
       IN  IF decoderOk /\ rec.calls < Len(EngineCalls(rec.doSeek))
           THEN /\ P' = [P EXCEPT !["trk"].call = EngineCalls(rec.doSeek)[rec.calls + 1],
                                   !["trk"].calls = rec.calls + 1]
                /\ UNCHANGED <<track, ret, aborted>>
           ELSE /\ (outcome = "buffer" => rec.acquired = 0)
                /\ P' = [P EXCEPT !["trk"] =
                           [rec EXCEPT !.pc = "ready", !.call = "none", !.calls = 0,
                                       !.cb = NoCallback,
                                       !.pushes = 0, !.firstPush = ZeroHeader,
                                       !.writeStatus = "none",
                                       !.seekTimeUs = S64(0),
                                       !.doSeek = FALSE, !.sample = U64(0),
                                       !.acquired = IF outcome = "buffer" THEN 1 ELSE @]]
                /\ aborted' = (outcome = "check")
                /\ track' = [track EXCEPT !.failed = @ \/ outcome = "null"]
                /\ ret' = LET common ==
                                [op |-> "read", ok |-> outcome = "buffer",
                                 status |-> ReadStatus(outcome = "buffer"),
                                 seek |-> rec.doSeek, engineOk |-> decoderOk,
                                 acquire |-> IF ~AcquireCalled(rec, decoderOk) THEN "none"
                                             ELSE IF acquireOk THEN "ok" ELSE "failed"]
                          IN  IF outcome = "buffer"
                              THEN [buffer |-> BufferOf(rec)] @@ common
                              ELSE common
    /\ UNCHANGED <<source, file, mInitCheck, mTrackMetadata, mFileMetadata>>

\* the consumer gives the buffer back to the group
ReleaseBuffer ==
    /\ ~aborted
    /\ P["trk"].acquired = 1
    /\ P' = [P EXCEPT !["trk"].acquired = 0]
    /\ UNCHANGED <<source, file, mInitCheck, mTrackMetadata, mFileMetadata, track, ret, aborted>>

-----------------------------------------------------------------------------
(* SniffFLAC *)

\* mutant: only the signature word is compared
SniffFLACSignatureOnly(n, header) ==
    IF n # kHeaderSize \/ SubSeq(header, 1, 4) # SubSeq(kMagic, 1, 4)
    THEN [result |-> FALSE, confidence |-> "unset"]
    ELSE [result |-> TRUE, confidence |-> "0.5"]

\* n is what source->readAt(0, header, sizeof(header)) returned and header the
\* bytes it stored; memcmp is reached only when all of them were read.
\* *confidence is left alone unless the stream is recognized.
SniffFLAC(n, header) ==
    IF n # kHeaderSize \/ header # kMagic
    THEN [result |-> FALSE, confidence |-> "unset"]
    ELSE [result |-> TRUE, confidence |-> "0.5"]

\* the sniffer is called; the data source hands over at most the bytes it has,
\* or fails (-1)
Sniff(n) ==
    /\ ~aborted
    /\ n <= Len(source)
    /\ LET header == SubSeq(source, 1, n)
       IN  ret' = [op |-> "sniff", n |-> n, header |-> header] @@ SniffFLAC(n, header)
    /\ UNCHANGED <<source, file, P, mInitCheck, mTrackMetadata, mFileMetadata, track, aborted>>

-----------------------------------------------------------------------------
(* Specifications *)

InitWith(sources, files) ==
    /\ source \in sources
    /\ file \in files
    /\ P = [p \in Parsers |-> IF p = "ext" THEN NewParser(FALSE, TRUE) ELSE NoParser]
    /\ mInitCheck = BoolToStatus(FALSE)
    /\ mTrackMetadata = EmptyFormat
    /\ mFileMetadata = EmptyFormat
    /\ track = NoTrack
    /\ ret = NoRet
    /\ aborted = FALSE

Init == InitWith({kMagic}, Files)

Construct ==
    \E p \in Parsers :
        \/ \E setupOk \in BOOLEAN : InitBegin(p, setupOk)
        \/ MetadataCallback(p)
        \/ \E header \in FrameHeaders(p) : WriteCallback(p, header)
        \/ \E metaOk \in BOOLEAN : InitEnd(p, metaOk)

Container ==
    \/ CountTracks
    \/ \E index \in 0 .. MaxIndex, uid \in Uids, copyOk \in BOOLEAN :
            GetTrackMetaData(index, uid, copyOk)
    \/ \E copyOk \in BOOLEAN : GetMetaData(copyOk)

Next ==
    \/ Construct
    \/ Container
    \/ \E index \in 0 .. MaxIndex, uid \in Uids : GetTrack(index, uid)
    \/ Start
    \/ Stop
    \/ \E copyOk \in BOOLEAN : GetFormat(copyOk)
    \/ ReleaseTrack
    \/ ReadBegin(FALSE, S64(0), FALSE)
    \/ \E seekTimeUs \in SeekTimes, trap \in BOOLEAN : ReadBegin(TRUE, seekTimeUs, trap)
    \/ \E decoderOk \in BOOLEAN, acquireOk \in BOOLEAN : ReadEnd(decoderOk, acquireOk)
    \/ ReleaseBuffer

Spec == Init /\ [][Next]_vars

\* One stream and one track, with the callbacks of the data source the decoder
\* makes for the track's parser, in its init() and in readBuffer; the decoder
\* pushes frames that keep the promises of STREAMINFO.
CursorFiles == {<<SI(MonoStream)>>}

CursorSeekTimes == {S64(22676)}

Cursor ==
    \E p \in {"trk"} :
        \/ \E requested \in 1 .. MaxPos, actual \in -1 .. MaxPos :
                ReadCallback(p, requested, actual)
        \/ \E offset \in 0 .. MaxPos : SeekCallback(p, offset)
        \/ TellCallback(p)
        \/ \E sizeOk \in BOOLEAN : LengthCallback(p, sizeOk)
        \/ EofCallback(p)

InitCursor == InitWith({kMagic}, CursorFiles)

NextCursor ==
    \/ \E p \in Parsers, setupOk \in BOOLEAN : InitBegin(p, setupOk)
    \/ \E p \in Parsers : MetadataCallback(p)
    \/ \E p \in Parsers, metaOk \in BOOLEAN : InitEnd(p, metaOk)
    \/ WriteCallback("trk", FrameHeader(1, getSampleRate("trk"), getChannels("trk"),
                                        getBitsPerSample("trk"), U64(0)))
    \/ Cursor
    \/ GetTrack(0, AID_MEDIA)
    \/ Start
    \/ ReadBegin(FALSE, S64(0), FALSE)
    \/ \E seekTimeUs \in CursorSeekTimes : ReadBegin(TRUE, seekTimeUs, FALSE)
    \/ \E decoderOk \in BOOLEAN, acquireOk \in BOOLEAN : ReadEnd(decoderOk, acquireOk)
    \/ ReleaseBuffer

SpecCursor == InitCursor /\ [][NextCursor]_vars

\* One stream and one track, with the errors the decoder reports to the track's
\* parser, in its init() and in readBuffer.
NextError ==
    \/ \E p \in Parsers, setupOk \in BOOLEAN : InitBegin(p, setupOk)
    \/ \E p \in Parsers : MetadataCallback(p)
    \/ \E p \in Parsers, metaOk \in BOOLEAN : InitEnd(p, metaOk)
    \/ \E header \in FrameHeaders("trk") : WriteCallback("trk", header)
    \/ \E status \in ErrorStatuses : ErrorCallback("trk", status)
    \/ GetTrack(0, AID_MEDIA)
    \/ Start
    \/ ReadBegin(FALSE, S64(0), FALSE)
    \/ \E seekTimeUs \in CursorSeekTimes : ReadBegin(TRUE, seekTimeUs, FALSE)
    \/ \E decoderOk \in BOOLEAN, acquireOk \in BOOLEAN : ReadEnd(decoderOk, acquireOk)
    \/ ReleaseBuffer

SpecError == InitCursor /\ [][NextError]_vars

\* One stream of large blocks and unknown length, and one track: the decoder
\* pushes frames of the stream, numbered from its start to frame 2^30 (sample
\* 2^45), the sample numbers a stream of fixed block size can reach.
LongBlock == 32768
LongStream == StreamInfo(96000, 2, 24, U64(0), LongBlock)
LongFiles == {<<SI(LongStream)>>}
LateSample == <<0, 0, 0, 0, 0, 32, 0, 0>>
LongSampleNumbers == {U64(0), U64(LongBlock), U64(LongBlock * LongBlock), LateSample}

InitFrame == InitWith({kMagic}, LongFiles)

NextFrame ==
    \/ \E p \in Parsers, setupOk \in BOOLEAN : InitBegin(p, setupOk)
    \/ \E p \in Parsers : MetadataCallback(p)
    \/ \E p \in Parsers, metaOk \in BOOLEAN : InitEnd(p, metaOk)
    \/ \E n \in {LongBlock - 1, LongBlock, LongBlock + 1}, s \in LongSampleNumbers :
            WriteCallback("trk", FrameHeader(n, getSampleRate("trk"), getChannels("trk"),
                                             getBitsPerSample("trk"), s))
    \/ \E uid \in Uids : GetTrack(0, uid)
    \/ Start
    \/ Stop
    \/ ReadBegin(FALSE, S64(0), FALSE)
    \/ \E seekTimeUs \in CursorSeekTimes : ReadBegin(TRUE, seekTimeUs, FALSE)
    \/ \E decoderOk \in BOOLEAN, acquireOk \in BOOLEAN : ReadEnd(decoderOk, acquireOk)
    \/ ReleaseBuffer

SpecFrame == InitFrame /\ [][NextFrame]_vars

\* The sniffer alone, over data sources that start as a FLAC stream does, or
\* nearly: the prefixes of the signature, the signature with one byte changed
\* or with one byte before it, and the signature followed by further bytes.
Sources ==
    {SubSeq(kMagic, 1, k) : k \in 0 .. kHeaderSize}
    \cup {[kMagic EXCEPT ![i] = (@ + 1) % 256] : i \in 1 .. kHeaderSize}
    \cup {[kMagic EXCEPT ![i] = (@ + 1) % 256] \o kMagic : i \in 1 .. kHeaderSize}
    \cup {kMagic \o <<0>>, <<0>> \o kMagic, <<73, 68, 51>> \o kMagic}

InitSniff == InitWith(Sources, {<<>>})
NextSniff == \E n \in -1 .. kHeaderSize : Sniff(n)
SpecSniff == InitSniff /\ [][NextSniff]_vars

\* the construction of the container alone, over a wider set of streams
InitWide == InitWith({kMagic}, WideFiles)
NextInit == Construct \/ Container
SpecInit == InitWide /\ [][NextInit]_vars

-----------------------------------------------------------------------------
(* Properties *)

\* the positions, among the first k metadata blocks of the stream, of the
\* STREAMINFO blocks
StreamInfoAt(k) == {i \in 1 .. k : file[i].type = "STREAMINFO"}
First(S) == CHOOSE i \in S : \A j \in S : i <= j
\* the metadata blocks parser p has been handed
Delivered(p) == P[p].next - 1

InitSucceeded == P["ext"].initStatus = OK

\* C1: the container reports one track if and only if the initialization of
\* its adapter succeeded and none otherwise; getTrack returns no track and
\* getTrackMetaData an error for every index above 0, and for every index when
\* the initialization failed.
C1_OneTrackIffInitialized ==
    P["ext"].pc = "ready" =>
        /\ countTracks = (IF InitSucceeded THEN 1 ELSE 0)
        /\ (ret.op = "countTracks" => ret.count = (IF InitSucceeded THEN 1 ELSE 0))
        /\ (ret.op = "getTrack" /\ (ret.index > 0 \/ ~InitSucceeded) => ~ret.track)
        /\ (ret.op = "getTrackMetaData" /\ (ret.index > 0 \/ ~InitSucceeded) => ~ret.ok)
        /\ (track.state # "none" => track.index = 0 /\ InitSucceeded)

\* a container that initialized has refused a track index above 0
C1_Witness ==
    /\ InitSucceeded /\ countTracks = 1
    /\ ret.op = "getTrack" /\ ret.index > 0 /\ ~ret.track

\* what init() is to accept, in the words of the claim
ChannelsSupported(si) == si.channels \in 1 .. 8
BitsSupported(si) == si.bits_per_sample \in {8, 16, 24}
RateSupported(si) ==
    si.sample_rate \in {8000, 11025, 12000, 16000, 22050, 24000, 32000, 44100, 48000,
                        88200, 96000}

\* C2: once the metadata phase has completed, initialization fails, and no
\* track is reported, exactly when no STREAMINFO block was seen or its channel
\* count is outside 1..8 or its bit depth is none of 8, 16, 24 or its sample
\* rate is none of the eleven supported rates; it succeeds for every other
\* combination. It fails too when the metadata phase did not complete.
C2_InitFailsIffUnsupported ==
    P["ext"].pc = "ready" =>
        LET si == P["ext"].mStreamInfo
            supported == /\ P["ext"].mStreamInfoValid
                         /\ ChannelsSupported(si) /\ BitsSupported(si) /\ RateSupported(si)
        IN  /\ (P["ext"].metaPhase = "ok" => (InitSucceeded <=> supported))
            /\ (P["ext"].metaPhase # "ok" => ~InitSucceeded)
            /\ (countTracks = 0 <=> ~InitSucceeded)

\* a stream of bit depth 12 went through the metadata phase and the container
\* reported no track
C2_Witness ==
    /\ P["ext"].pc = "ready" /\ P["ext"].metaPhase = "ok"
    /\ P["ext"].mStreamInfoValid /\ P["ext"].mStreamInfo.bits_per_sample = 12
    /\ ChannelsSupported(P["ext"].mStreamInfo) /\ RateSupported(P["ext"].mStreamInfo)
    /\ ret.op = "countTracks" /\ ret.count = 0

\* C3: the stream parameters of a parser are those of the first STREAMINFO
\* block it was handed, whatever metadata blocks (further STREAMINFO blocks
\* included), reads and seeks came after it; before that block they are zero.
C3_FirstStreamInfoKept ==
    \A p \in Parsers :
        P[p].pc # "none" =>
            IF StreamInfoAt(Delivered(p)) = {}
            THEN ~P[p].mStreamInfoValid /\ P[p].mStreamInfo = ZeroStreamInfo
            ELSE /\ P[p].mStreamInfoValid
                 /\ P[p].mStreamInfo = file[First(StreamInfoAt(Delivered(p)))].stream_info

\* the track's parser was handed a second, different STREAMINFO block and has
\* returned a buffer from a seeking read since
C3_Witness ==
    /\ Cardinality(StreamInfoAt(Delivered("trk"))) = 2
    /\ file[1] # file[2]
    /\ ret.op = "read" /\ ret.ok /\ ret.seek

\* C4 as stated: a second STREAMINFO block in the metadata phase makes the
\* initialization fail, so that no track is reported.
C4_DuplicateFailsInit ==
    P["ext"].pc = "ready" /\ Cardinality(StreamInfoAt(Delivered("ext"))) >= 2
        => countTracks = 0

\* C4, amended: a second STREAMINFO block in the metadata phase is dropped and
\* decides nothing: when the phase completes, the initialization succeeds, and
\* one track is reported, exactly when the first block is supported.
C4_DuplicateIgnored ==
    /\ P["ext"].pc = "ready" /\ P["ext"].metaPhase = "ok"
    /\ Cardinality(StreamInfoAt(Delivered("ext"))) >= 2
    => LET first == file[First(StreamInfoAt(Delivered("ext")))].stream_info
       IN  countTracks = (IF ChannelsSupported(first) /\ BitsSupported(first)
                             /\ RateSupported(first) THEN 1 ELSE 0)

\* two STREAMINFO blocks were delivered in the metadata phase and the container
\* reported one track
C4_Witness ==
    /\ P["ext"].pc = "ready" /\ P["ext"].metaPhase = "ok"
    /\ Cardinality(StreamInfoAt(Delivered("ext"))) = 2
    /\ ret.op = "countTracks" /\ ret.count = 1

\* the STREAMINFO block of the stream (its first one)
StreamParameters == file[First(StreamInfoAt(Len(file)))].stream_info

\* total * 1000000 \div rate in exact arithmetic
ExactQuotient(total, rate) == BigDiv(BigMul(Extend(total, ExactLen), 1000000), rate)

\* what track metadata holds of the stream parameters si, total_samples apart
ReportsParameters(fmt, si) ==
    /\ fmt["sample-rate"] = si.sample_rate
    /\ fmt["channel-count"] = si.channels
    /\ fmt["bits-per-sample"] = si.bits_per_sample
    /\ ~IsNegative(fmt["durationUs"])
    /\ Extend(fmt["durationUs"], ExactLen) = ExactQuotient(si.total_samples, si.sample_rate)

\* C5 as stated: after a successful initialization the track metadata reports
\* totalSamples, sampleRate, channelCount and bitsPerSample of the STREAMINFO
\* block, and the duration totalSamples * 1000000 \div sampleRate.
C5_MetadataReportsTotalSamples ==
    P["ext"].pc = "ready" /\ InitSucceeded =>
        /\ HasKey(mTrackMetadata, "total-samples")
        /\ mTrackMetadata["total-samples"] = StreamParameters.total_samples
        /\ ReportsParameters(mTrackMetadata, StreamParameters)

\* C5, amended: after a successful initialization the track metadata holds
\* the mime type, sampleRate, channelCount and bitsPerSample of the STREAMINFO
\* block and the duration totalSamples * 1000000 \div sampleRate, and nothing
\* else: totalSamples is no entry of it, the adapter keeps it (getTotalSamples).
C5_MetadataReportsParameters ==
    P["ext"].pc = "ready" /\ InitSucceeded =>
        /\ DOMAIN mTrackMetadata =
             {"mime", "channel-count", "sample-rate", "bits-per-sample", "durationUs"}
        /\ ReportsParameters(mTrackMetadata, StreamParameters)
        /\ getTotalSamples("ext") = StreamParameters.total_samples

\* the longest stream of the model initialized and its track metadata was
\* handed out
C5_Witness ==
    /\ P["ext"].pc = "ready" /\ InitSucceeded
    /\ StreamParameters.total_samples = MaxTotalSamples
    /\ StreamParameters.sample_rate = 8000
    /\ ret.op = "getTrackMetaData" /\ ret.ok
    /\ ret.meta["durationUs"] = mTrackMetadata["durationUs"]

\* the container was built, with a completed metadata phase, from a mono,
\* 44100 Hz, 16-bit stream of 1000 samples
MonoScenario ==
    /\ P["ext"].pc = "ready" /\ P["ext"].metaPhase = "ok"
    /\ P["ext"].mStreamInfoValid
    /\ P["ext"].mStreamInfo.channels = 1
    /\ P["ext"].mStreamInfo.sample_rate = 44100
    /\ P["ext"].mStreamInfo.bits_per_sample = 16
    /\ P["ext"].mStreamInfo.total_samples = U64(1000)

\* C6 as stated: the scenario gives one track and a duration of 22676 us.
C6_Duration22676 ==
    MonoScenario => countTracks = 1 /\ mTrackMetadata["durationUs"] = U64(22676)

\* C6, amended: the scenario gives one track and a duration of 22675 us
\* (1000 * 1000000 \div 44100, the quotient cut and not rounded).
C6_Duration22675 ==
    MonoScenario => countTracks = 1 /\ mTrackMetadata["durationUs"] = U64(22675)

\* the scenario, with the track count and the track metadata handed out
C6_Witness ==
    /\ MonoScenario
    /\ countTracks = 1
    /\ ret.op = "getTrackMetaData" /\ ret.ok /\ ret.meta["durationUs"] = U64(22675)

\* the frame header keeps what STREAMINFO promised, in the words of the claim
KeepsPromises(header, si) ==
    /\ 0 < header.blocksize /\ header.blocksize <= si.max_blocksize
    /\ header.sample_rate = si.sample_rate
    /\ header.channels = si.channels
    /\ header.bits_per_sample = si.bits_per_sample

\* C7: when a read returns a buffer, sequential or seeking, the buffer was made
\* from the frame captured in that call, and the block size of the frame is in
\* 1..max_blocksize and its sample rate, channel count and bit depth are those
\* of the stream parameters; when the captured frame breaks any of these the
\* read returns no buffer and takes nothing from the pool.
C7_OnlyConsistentFrames ==
    [][\A decoderOk \in BOOLEAN, acquireOk \in BOOLEAN :
          ReadEnd(decoderOk, acquireOk) =>
            /\ ret'.op = "read"
            /\ (ret'.ok =>
                  /\ P["trk"].mWriteCompleted
                  /\ ret'.buffer.header = P["trk"].mWriteHeader
                  /\ KeepsPromises(ret'.buffer.header, P["trk"].mStreamInfo)
                  /\ P'["trk"].mStreamInfo = P["trk"].mStreamInfo)
            /\ (~KeepsPromises(P["trk"].mWriteHeader, P["trk"].mStreamInfo) =>
                  /\ ~ret'.ok
                  /\ P'["trk"].acquired = P["trk"].acquired
                  /\ ~aborted')]_vars

\* a read of a started track captured a frame of another bit depth and
\* returned no buffer, while the buffer of an earlier read is with the consumer
C7_Witness ==
    /\ track.state = "live" /\ track.mStarted
    /\ ret.op = "read" /\ ~ret.ok
    /\ P["trk"].mWriteCompleted
    /\ P["trk"].mWriteHeader.blocksize = 1
    /\ P["trk"].mWriteHeader.bits_per_sample # P["trk"].mStreamInfo.bits_per_sample
    /\ P["trk"].mWriteHeader.sample_rate = P["trk"].mStreamInfo.sample_rate
    /\ P["trk"].mWriteHeader.channels = P["trk"].mStreamInfo.channels
    /\ P["trk"].acquired = 1

\* C8: a track puts out 32-bit float if and only if the bit depth of the
\* stream is above 16 and the caller of getTrack is AID_MEDIA, and 16-bit
\* integers otherwise; the choice holds for the life of the track: getFormat
\* reports it and every read uses the formatter of that encoding.
C8_FloatOnlyForMedia ==
    track.state # "none" =>
        LET float == P["ext"].mStreamInfo.bits_per_sample > 16 /\ track.uid = AID_MEDIA
        IN  /\ track.mOutputFloat = float
            /\ P["trk"].mOutputFloat = float
            /\ (ret.op = "getFormat" /\ ret.ok =>
                  ret.meta["pcm-encoding"] =
                    (IF float THEN kAudioEncodingPcmFloat ELSE kAudioEncodingPcm16bit))
            /\ (ret.op = "read" /\ ret.ok =>
                  ret.buffer.copy.fn = (IF float THEN "copyToFloat" ELSE "copyTo16Signed"))
            /\ (ret.op = "read" /\ ret.ok =>
                  ret.buffer.size = ret.buffer.header.blocksize * getChannels("trk")
                                    * (IF float THEN 4 ELSE 2))

\* a track of a 24-bit stream made for another caller than AID_MEDIA returned a
\* 16-bit buffer
C8_Witness ==
    /\ track.state = "live" /\ track.uid # AID_MEDIA
    /\ P["ext"].mStreamInfo.bits_per_sample = 24
    /\ ret.op = "read" /\ ret.ok /\ ret.buffer.copy.fn = "copyTo16Signed"

\* C9: whenever a read calls the 16-bit formatter the bit depth it is given is
\* at most 16, so that its shift 16 - bitsPerSample is one of 0..8.
C9_ShiftInRange ==
    ret.op = "read" /\ ret.ok /\ ret.buffer.copy.fn = "copyTo16Signed" =>
        /\ ret.buffer.copy.bitsPerSample <= 16
        /\ ret.buffer.copy.leftShift \in {U32(k) : k \in 0 .. 8}

\* C10: the buffer pool exists exactly while the track is started, and there
\* is never a second one; start() succeeds exactly on a stopped track and
\* stop() exactly on a started one, and a failing call changes neither the
\* pool nor the state of the track (its CHECK ends the process).
C10_PoolIffStarted ==
    /\ (track.state = "live" =>
          /\ (P["trk"].mGroup # NULL <=> track.mStarted)
          /\ P["trk"].groups = (IF track.mStarted THEN 1 ELSE 0))
    /\ (ret.op = "start" =>
          /\ (ret.ok <=> ~ret.wasStarted)
          /\ (ret.ok => ~aborted)
          /\ (~ret.ok => aborted /\ track.mStarted)
          /\ track.mStarted)
    /\ (ret.op = "stop" =>
          /\ (ret.ok <=> ret.wasStarted)
          /\ (ret.ok => ~aborted)
          /\ (~ret.ok => aborted /\ ~track.mStarted)
          /\ ~track.mStarted)

\* start() was called on a started track: it failed and there is one pool
C10_Witness ==
    /\ ret.op = "start" /\ ~ret.ok /\ ret.wasStarted
    /\ track.mStarted /\ P["trk"].groups = 1

\* the sample index of a seek in the words of the claim, in exact arithmetic
ClaimedSample(seekTimeUs, rate, total) ==
    IF NotPositive(seekTimeUs) THEN U64(0)
    ELSE LET exact == BigDiv(BigMul(Extend(seekTimeUs, ExactLen), rate), 1000000)
         IN  IF BigLess(exact, Extend(total, ExactLen)) THEN SubSeq(exact, 1, 8) ELSE total

\* C11: for every seek time, the sample index read() hands to readBuffer is 0
\* when the time is not positive and otherwise the smaller of
\* seekTimeUs * sampleRate / 1000000, computed without wrap-around, and the
\* total number of samples; the conversion never stops the process.
C11_SeekSampleClamped ==
    [][\A seekTimeUs \in SeekTimes, trap \in BOOLEAN :
          ReadBegin(TRUE, seekTimeUs, trap) =>
            /\ ~aborted'
            /\ P'["trk"].sample = ClaimedSample(seekTimeUs, getSampleRate("trk"),
                                                getTotalSamples("trk"))]_vars

\* the seek time is beyond the duration of the stream
BeyondDuration(seekTimeUs, rate, total) ==
    /\ ~NotPositive(seekTimeUs)
    /\ rate > 0
    /\ BigLess(Duration(total, rate), seekTimeUs)

\* C12: a read that seeks to a time beyond the duration of the stream hands
\* the total number of samples to readBuffer, and a read that returns no
\* buffer reports the end of the stream, not an error.
C12_SeekBeyondDurationIsEndOfStream ==
    [][/\ \A seekTimeUs \in SeekTimes, trap \in BOOLEAN :
             /\ ReadBegin(TRUE, seekTimeUs, trap)
             /\ BeyondDuration(seekTimeUs, getSampleRate("trk"), getTotalSamples("trk"))
             => /\ ~aborted'
                /\ P'["trk"].sample = getTotalSamples("trk")
       /\ \A decoderOk \in BOOLEAN, acquireOk \in BOOLEAN :
             ReadEnd(decoderOk, acquireOk) /\ ~aborted' /\ ~ret'.ok
             => ret'.status = "AMEDIA_ERROR_END_OF_STREAM"]_vars

\* the frame is one readBuffer makes a buffer of
ValidFrame(header, si) == KeepsPromises(header, si) /\ header.number_type = "SAMPLE_NUMBER"

\* C13: a read that returns no buffer reports the end of the stream, takes
\* nothing from the pool and leaves the track as it was (started, with its
\* pool and its stream parameters); whatever reads have failed before, a read
\* of a started track (one whose parser initialized) whose decoder call
\* succeeds after pushing a valid frame first, and that gets a buffer from the
\* pool, returns a buffer of that frame.
C13_FailedReadKeepsTrackUsable ==
    [][\A decoderOk \in BOOLEAN, acquireOk \in BOOLEAN :
          ReadEnd(decoderOk, acquireOk) =>
            /\ (~ret'.ok /\ ~aborted' =>
                  /\ ret'.status = "AMEDIA_ERROR_END_OF_STREAM"
                  /\ "buffer" \notin DOMAIN ret'
                  /\ P'["trk"].acquired = P["trk"].acquired
                  /\ P'["trk"].pc = "ready"
                  /\ track'.state = "live" /\ track'.mStarted = track.mStarted
                  /\ P'["trk"].mGroup = P["trk"].mGroup
                  /\ P'["trk"].mMaxBufferSize = P["trk"].mMaxBufferSize
                  /\ P'["trk"].mStreamInfo = P["trk"].mStreamInfo)
            /\ (/\ track.mStarted /\ P["trk"].initStatus = OK
                /\ decoderOk /\ acquireOk
                /\ P["trk"].pushes >= 1
                /\ ValidFrame(P["trk"].firstPush, P["trk"].mStreamInfo)
                => /\ ret'.ok /\ ret'.status = "AMEDIA_OK"
                   /\ ret'.buffer.header = P["trk"].firstPush
                   /\ ~aborted')]_vars

\* a read returned a buffer after an earlier read of the track had failed
C13_Witness ==
    /\ track.state = "live" /\ track.mStarted /\ track.failed
    /\ P["trk"].initStatus = OK
    /\ ret.op = "read" /\ ret.ok
    /\ ValidFrame(ret.buffer.header, P["trk"].mStreamInfo)

\* C14: the sniffer recognizes the data source if and only if the read of 8
\* bytes at offset 0 returned 8 bytes and they are the signature; it sets the
\* confidence to 0.5 when it does and leaves it unset when it does not,
\* whatever bytes follow the first 8.
C14_SniffIffMagic ==
    ret.op = "sniff" =>
        /\ ret.result <=> (ret.n = kHeaderSize /\ ret.header = kMagic)
        /\ ret.header = SubSeq(source, 1, ret.n)
        /\ ret.result => ret.confidence = "0.5"
        /\ ~ret.result => ret.confidence = "unset"

\* 8 bytes that are not the signature were read and rejected, and the
\* signature follows them
C14_Witness ==
    /\ ret.op = "sniff" /\ ~ret.result /\ ret.n = kHeaderSize
    /\ Len(source) = 2 * kHeaderSize
    /\ SubSeq(source, kHeaderSize + 1, 2 * kHeaderSize) = kMagic

\* C15: a frame pushed while a write is requested is captured (header and
\* channel pointers), the request is withdrawn and the decoder is told to
\* continue; a frame pushed while no write is requested, as every frame pushed
\* inside init() and every frame after the first inside one readBuffer is,
\* gets the abort status and leaves the captured header, the channel pointers
\* and both flags as they were.
C15_CaptureOnlyWhileArmed ==
    [][\A p \in Parsers :
          (~aborted /\ P[p].pc \in {"metadata", "driving"} /\ P'[p].pushes = P[p].pushes + 1) =>
          \A header \in FrameHeaders(p) :
            WriteCallback(p, header) =>
              /\ (P[p].pc = "metadata" \/ P[p].pushes >= 1) => ~P[p].mWriteRequested
              /\ (P[p].pc = "driving" /\ P[p].pushes = 0) => P[p].mWriteRequested
              /\ IF P[p].mWriteRequested
                 THEN /\ P'[p].mWriteHeader = header
                      /\ P'[p].mWriteBuffer = P'[p].pushes
                      /\ P'[p].mWriteCompleted
                      /\ ~P'[p].mWriteRequested
                      /\ P'[p].writeStatus = "CONTINUE"
                 ELSE /\ P'[p].writeStatus = "ABORT"
                      /\ P'[p].mWriteHeader = P[p].mWriteHeader
                      /\ P'[p].mWriteBuffer = P[p].mWriteBuffer
                      /\ P'[p].mWriteCompleted = P[p].mWriteCompleted
                      /\ P'[p].mWriteRequested = P[p].mWriteRequested]_vars

\* a second frame was pushed inside one readBuffer and refused, and the first
\* one is still the captured one
C15_Witness ==
    /\ P["trk"].pc = "driving" /\ P["trk"].pushes = 2
    /\ P["trk"].writeStatus = "ABORT"
    /\ P["trk"].mWriteCompleted /\ ~P["trk"].mWriteRequested
    /\ P["trk"].mWriteHeader = P["trk"].firstPush
    /\ P["trk"].mWriteBuffer = 1

\* C16: a readBuffer inside which no frame was pushed returns no buffer and
\* takes nothing from the pool, whatever an earlier call captured; a buffer
\* that is returned is made of the first frame pushed inside the same call.
C16_NoPushNoBuffer ==
    [][\A decoderOk \in BOOLEAN, acquireOk \in BOOLEAN :
          ReadEnd(decoderOk, acquireOk) =>
            /\ P["trk"].pushes = 0 =>
                  /\ ~aborted'
                  /\ ~ret'.ok
                  /\ "buffer" \notin DOMAIN ret'
                  /\ ret'.acquire = "none"
                  /\ P'["trk"].acquired = P["trk"].acquired
            /\ ret'.ok =>
                  /\ P["trk"].pushes >= 1
                  /\ ret'.buffer.header = P["trk"].firstPush
                  /\ ret'.buffer.planes = 1]_vars

\* a read whose decoder call succeeded without pushing a frame returned no
\* buffer, while the frame an earlier call captured is one a buffer is made of
C16_Witness ==
    /\ track.state = "live" /\ track.mStarted
    /\ ret.op = "read" /\ ~ret.ok /\ ret.engineOk
    /\ ~P["trk"].mWriteCompleted
    /\ ValidFrame(P["trk"].mWriteHeader, P["trk"].mStreamInfo)
    /\ P["trk"].acquired = 0

\* C17 as stated: once seek_absolute has succeeded, readBuffer calls
\* process_single before it looks whether a frame was captured.
C17_SeekThenProcessSingle ==
    [][\A acquireOk \in BOOLEAN :
          ReadEnd(TRUE, acquireOk) /\ P["trk"].doSeek /\ P["trk"].call = "seek_absolute"
          => P'["trk"].pc = "driving" /\ P'["trk"].call = "process_single"]_vars

\* C17: a readBuffer that seeks makes one decoder call, seek_absolute; when it
\* has succeeded readBuffer looks at once whether a frame was captured, inside
\* the seek, and goes on as a readBuffer without a seek does after its
\* process_single: no buffer when nothing was captured, and otherwise a buffer
\* of the captured frame if there is one at all.
C17_SeekChecksCaptureAtOnce ==
    [][\A acquireOk \in BOOLEAN :
          ReadEnd(TRUE, acquireOk) /\ P["trk"].doSeek =>
            /\ P["trk"].call = "seek_absolute" /\ P["trk"].calls = 1
            /\ P'["trk"].pc = "ready"
            /\ ret'.op = "read" /\ ret'.seek /\ ret'.engineOk
            /\ ~P["trk"].mWriteCompleted => ~ret'.ok /\ ret'.acquire = "none"
            /\ ret'.ok <=> ReadOutcome([P["trk"] EXCEPT !.doSeek = FALSE], TRUE, acquireOk) = "buffer"
            /\ aborted' <=> ReadOutcome([P["trk"] EXCEPT !.doSeek = FALSE], TRUE, acquireOk) = "check"
            /\ ret'.ok => ret'.buffer = BufferOf([P["trk"] EXCEPT !.doSeek = FALSE])
                           /\ ret'.buffer.header = P["trk"].firstPush]_vars

\* a read that seeks returned a buffer of a frame pushed inside seek_absolute
C17_Witness ==
    /\ ret.op = "read" /\ ret.seek /\ ret.engineOk /\ ret.ok
    /\ ValidFrame(ret.buffer.header, P["trk"].mStreamInfo)

\* C18: a readBuffer whose seek_absolute fails returns no buffer, does not
\* call acquire_buffer, takes nothing from the pool, and leaves the position
\* in the data source and the end-of-stream flag as the decoder's callbacks
\* left them; read() reports the end of the stream.
C18_FailedSeekLeavesCursor ==
    [][\A acquireOk \in BOOLEAN :
          ReadEnd(FALSE, acquireOk) /\ P["trk"].doSeek =>
            /\ ~aborted'
            /\ ~ret'.ok /\ "buffer" \notin DOMAIN ret'
            /\ ret'.status = "AMEDIA_ERROR_END_OF_STREAM"
            /\ ret'.acquire = "none"
            /\ P'["trk"].acquired = P["trk"].acquired
            /\ P'["trk"].mCurrentPos = P["trk"].mCurrentPos
            /\ P'["trk"].mEOF = P["trk"].mEOF]_vars

\* a seek failed after the decoder had moved the position and pushed a frame
C18_Witness ==
    /\ ret.op = "read" /\ ret.seek /\ ~ret.engineOk /\ ~ret.ok
    /\ P["trk"].mCurrentPos > 0
    /\ P["trk"].mWriteCompleted
    /\ P["trk"].mGroup # NULL

\* C19: a read callback that got n > 0 bytes moves the position by n, leaves
\* the end-of-stream flag alone and returns n bytes with the continue status;
\* one that got 0 bytes sets the flag, leaves the position alone and returns
\* the end-of-stream status; one that got an error returns the abort status
\* with 0 bytes and leaves both alone.  The tell, length and eof callbacks
\* leave both alone.
C19_ReadMovesCursor ==
    [][\A p \in Parsers :
          /\ \A requested \in 1 .. MaxPos, actual \in -1 .. MaxPos :
                ReadCallback(p, requested, actual) =>
                  /\ actual > 0 =>
                        /\ P'[p].mCurrentPos = P[p].mCurrentPos + actual
                        /\ P'[p].mEOF = P[p].mEOF
                        /\ P'[p].cb.status = "CONTINUE" /\ P'[p].cb.bytes = actual
                  /\ actual = 0 =>
                        /\ P'[p].mEOF
                        /\ P'[p].mCurrentPos = P[p].mCurrentPos
                        /\ P'[p].cb.status = "END_OF_STREAM" /\ P'[p].cb.bytes = 0
                  /\ actual < 0 =>
                        /\ P'[p].cb.status = "ABORT" /\ P'[p].cb.bytes = 0
                        /\ P'[p].mCurrentPos = P[p].mCurrentPos
                        /\ P'[p].mEOF = P[p].mEOF
          /\ (TellCallback(p) \/ EofCallback(p) \/ \E sizeOk \in BOOLEAN : LengthCallback(p, sizeOk)) =>
                  /\ P'[p].mCurrentPos = P[p].mCurrentPos
                  /\ P'[p].mEOF = P[p].mEOF]_vars

\* a read got fewer bytes than it asked for, after an earlier read had got none
C19_Witness ==
    /\ P["trk"].cb.name = "read"
    /\ P["trk"].cb.actual = 1 /\ P["trk"].cb.requested = 2
    /\ P["trk"].mCurrentPos = 2
    /\ P["trk"].mEOF

\* C20: the end-of-stream flag, which the eof callback returns, is true
\* exactly when a read callback has got 0 bytes and no seek callback came
\* after it; the seek callback sets the position to the offset it is given,
\* clears the flag and returns the ok status; a read callback that gets bytes
\* while the flag is set leaves it set.
C20_EofIffZeroReadSinceSeek ==
    /\ [](\A p \in Parsers :
            /\ P[p].mEOF = P[p].zeroRead
            /\ P[p].cb.name = "eof" => P[p].cb.result = P[p].zeroRead)
    /\ [][\A p \in Parsers :
            /\ \A offset \in 0 .. MaxPos :
                  SeekCallback(p, offset) =>
                    /\ P'[p].mCurrentPos = offset
                    /\ ~P'[p].mEOF
                    /\ P'[p].cb.status = "OK"
            /\ \A requested \in 1 .. MaxPos, actual \in 1 .. MaxPos :
                  ReadCallback(p, requested, actual) /\ P[p].mEOF => P'[p].mEOF]_vars

\* inside a readBuffer the eof callback returned true: a read had got 0 bytes
\* and no seek came after it
C20_Witness ==
    /\ P["trk"].pc = "driving"
    /\ P["trk"].cb.name = "eof" /\ P["trk"].cb.result
    /\ P["trk"].zeroRead
    /\ P["trk"].mCurrentPos = MaxPos

\* the parser as it would be had the decoder reported no error
WithoutErrors(rec) == [rec EXCEPT !.mErrorStatus = -1, !.errors = 0]

\* C21: errorCallback stores the status it is given and changes nothing else
\* of the parser (not the write flags, the captured frame, the position and
\* end-of-stream flag of the data source, or the stream parameters) or of the
\* extractor; what a read returns is what it would return had no error been
\* reported, and a read of a started track whose decoder call succeeds after
\* pushing a valid frame first returns a buffer of it whatever errors were
\* reported.
C21_ErrorOnlyRecorded ==
    [][/\ \A p \in Parsers, status \in ErrorStatuses :
             ErrorCallback(p, status) =>
               /\ P'[p].mErrorStatus = status
               /\ WithoutErrors(P'[p]) = WithoutErrors(P[p])
               /\ \A q \in Parsers \ {p} : P'[q] = P[q]
               /\ UNCHANGED <<mInitCheck, mTrackMetadata, mFileMetadata, track, ret, aborted>>
       /\ \A decoderOk \in BOOLEAN, acquireOk \in BOOLEAN :
             ReadEnd(decoderOk, acquireOk) =>
               LET rec == P["trk"]
                   outcome == ReadOutcome(WithoutErrors(rec), decoderOk, acquireOk)
               IN  /\ ret'.ok <=> outcome = "buffer"
                   /\ aborted' <=> outcome = "check"
                   /\ ret'.ok => ret'.buffer = BufferOf(WithoutErrors(rec))
                   /\ (/\ track.mStarted /\ rec.initStatus = OK
                       /\ decoderOk /\ acquireOk
                       /\ rec.pushes >= 1
                       /\ ValidFrame(rec.firstPush, rec.mStreamInfo)
                       => ret'.ok /\ ret'.buffer.header = rec.firstPush)]_vars

\* a read returned a buffer of a valid frame although the decoder had reported
\* errors inside it
C21_Witness ==
    /\ ret.op = "read" /\ ret.ok /\ ret.engineOk
    /\ P["trk"].errors = MaxErrors
    /\ P["trk"].mErrorStatus \in ErrorStatuses
    /\ ValidFrame(ret.buffer.header, P["trk"].mStreamInfo)

\* 1000000 * sampleNumber / sampleRate in exact arithmetic
ExactTimeUs(sampleNumber, rate) ==
    BigDiv(BigMul(Extend(sampleNumber, ExactLen), 1000000), rate)

\* sizeof(float) or sizeof(short)
OutputSampleWidth(outputFloat) == IF outputFloat THEN 4 ELSE 2

\* C22: a buffer a read returns has the length blocksize * channels * output
\* sample width, which is at most the capacity max_blocksize * channels *
\* output sample width of the buffer of the pool, carries the time
\* 1000000 * sample_number / sample_rate of the captured frame, and is marked
\* as a sync frame.
C22_BufferSizeAndTime ==
    ret.op = "read" /\ ret.ok =>
        LET b == ret.buffer
            si == P["trk"].mStreamInfo
            w == OutputSampleWidth(track.mOutputFloat)
        IN  /\ b.size = b.header.blocksize * si.channels * w
            /\ b.capacity = si.max_blocksize * si.channels * w
            /\ b.size <= b.capacity
            /\ Extend(b.timeUs, ExactLen) = ExactTimeUs(b.header.sample_number, si.sample_rate)
            /\ b.sync = 1

\* C23 as stated: whenever no readBuffer is in progress, no write is requested.
C23_UnarmedWhenIdle ==
    \A p \in Parsers : P[p].pc # "driving" => ~P[p].mWriteRequested

\* C23: no write is requested before the first readBuffer of a parser (in its
\* constructor and init(), and for the parser of the extractor ever); a
\* readBuffer that returns leaves the write requested exactly when no frame
\* was pushed inside it; and the request changes only where readBuffer makes
\* it, where the first frame pushed inside a readBuffer is captured, and
\* where the parser is created or deleted.
C23_ArmedUntilCaptured ==
    /\ [](\A p \in Parsers :
            P[p].pc \in {"none", "init", "metadata"} \/ p = "ext" => ~P[p].mWriteRequested)
    /\ [][/\ \A decoderOk \in BOOLEAN, acquireOk \in BOOLEAN :
               ReadEnd(decoderOk, acquireOk) =>
                 /\ P'["trk"].pc = "ready"
                 /\ P'["trk"].mWriteRequested <=> P["trk"].pushes = 0
          /\ P'["trk"].mWriteRequested # P["trk"].mWriteRequested =>
               \/ /\ P["trk"].pc = "ready" /\ P'["trk"].pc = "driving"
                  /\ P'["trk"].mWriteRequested
               \/ /\ P["trk"].pc = "driving" /\ P'["trk"].pc = "driving"
                  /\ P["trk"].pushes = 0 /\ P'["trk"].pushes = 1
                  /\ ~P'["trk"].mWriteRequested
               \/ /\ P'["trk"].pc \in {"none", "init"}
                  /\ ~P'["trk"].mWriteRequested]_vars

\* a read has returned without a buffer, no frame having been pushed inside it,
\* and the write is still requested
C23_Witness ==
    /\ track.state = "live"
    /\ P["trk"].pc = "ready"
    /\ P["trk"].mWriteRequested
    /\ ret.op = "read" /\ ~ret.ok /\ ret.engineOk /\ ~ret.seek

\* C24: while a track exists, the encoding getTrackMetaData reports for it,
\* whoever calls, is the encoding of the track: the one its getFormat reports
\* and the one of the formatter and of the sample width of its reads.
C24_OneEncodingPerTrack ==
    track.state = "live" =>
        /\ (ret.op = "getTrackMetaData" /\ ret.ok =>
              ret.meta["pcm-encoding"] = PcmEncoding(track.mOutputFloat))
        /\ (ret.op = "getFormat" /\ ret.ok =>
              ret.meta["pcm-encoding"] = PcmEncoding(track.mOutputFloat))
        /\ (ret.op = "read" /\ ret.ok =>
              /\ ret.buffer.copy.fn =
                   (IF track.mOutputFloat THEN "copyToFloat" ELSE "copyTo16Signed")
              /\ ret.buffer.size = ret.buffer.header.blocksize * getChannels("trk")
                                   * OutputSampleWidth(track.mOutputFloat))

\* the keys init() sets in the track metadata
TrackKeys == {"mime", "channel-count", "sample-rate", "bits-per-sample", "durationUs"}

\* C25: unless init() of the extractor's parser has returned OK, the track
\* metadata has no key and the file metadata has no mime type, whatever tags
\* and album art the metadata blocks have put into the file metadata; the
\* track metadata has either no key or all of its five.
C25_NothingPublishedOnFailure ==
    /\ (P["ext"].pc # "ready" \/ P["ext"].initStatus # OK) =>
          /\ mTrackMetadata = EmptyFormat
          /\ ~HasKey(mFileMetadata, "mime")
          /\ DOMAIN mFileMetadata \subseteq {"tags", "albumart"}
    /\ DOMAIN mTrackMetadata \in {{}, TrackKeys}
    /\ (P["ext"].pc = "ready" /\ P["ext"].initStatus = OK) =>
          /\ DOMAIN mTrackMetadata = TrackKeys
          /\ HasKey(mFileMetadata, "mime")

\* init() has failed on the parameters of the stream after tags and album art
\* were stored
C25_Witness ==
    /\ P["ext"].pc = "ready" /\ P["ext"].initStatus # OK
    /\ P["ext"].metaPhase = "ok"
    /\ P["ext"].mStreamInfoValid
    /\ HasKey(mFileMetadata, "tags") /\ HasKey(mFileMetadata, "albumart")
    /\ mTrackMetadata = EmptyFormat

====
